---- MODULE Spec2Model ----
(***************************************************************************)
(* LiarBar: 1v1 poker-roulette.  Model of backend/gameLogic.js (the match  *)
(* engine), backend/pokerEval.js (deck and hand evaluator) and the socket  *)
(* handlers of backend/server.js that drive them.                          *)
(***************************************************************************)
EXTENDS Integers, Sequences, FiniteSets, TLC

(* ---------------------------------------------------------------------- *)
(* Bounds of the exploration                                               *)
(* ---------------------------------------------------------------------- *)
\* number of distinct random streams a shuffle can draw from
NumShuffles == 2
\* number of card exchanges executed in one run
MaxSwitches == 1
\* number of hands dealt in one run
MaxHands == 2
\* number of betting actions accepted outside the betting phases in one run
MaxLateActions == 1
\* number of disconnects of a joined connection in one run
MaxDisconnects == 1
\* length the viewers list may grow to
MaxViewers == 1

(* ---------------------------------------------------------------------- *)
(* pokerEval.js                                                            *)
(* ---------------------------------------------------------------------- *)
\* JavaScript null: where a string is expected, and where an object is expected
null == "null"
nullObject == [isNull |-> TRUE]

RANKS == <<"2", "3", "4", "5", "6", "7", "8", "9", "10", "J", "Q", "K", "A">>
SUITS == <<"S", "C", "H", "D">>

HIGH_CARD == 1
PAIR == 2
TWO_PAIR == 3
THREE_OF_KIND == 4
STRAIGHT == 5
FLUSH == 6
FULL_HOUSE == 7
FOUR_OF_KIND == 8
STRAIGHT_FLUSH == 9
ROYAL_FLUSH == 10

\* createDeck: suits outer, ranks inner, value = i + 2
createDeck ==
  [k \in 1..(Len(SUITS) * Len(RANKS)) |->
     [rank  |-> RANKS[((k - 1) % Len(RANKS)) + 1],
      suit  |-> SUITS[((k - 1) \div Len(RANKS)) + 1],
      value |-> ((k - 1) % Len(RANKS)) + 2]]

\* Math.floor(Math.random() * (i + 1)) for random stream r at loop index i
\* (0-based index, result in 0..i)
randomIndex(r, i) ==
  CASE r = 1 -> i
    [] r = 2 -> (CASE i = 51 -> 0 [] i = 50 -> 1 [] i = 49 -> 13 [] i = 48 -> 14
                   [] OTHER -> i)
    [] OTHER -> (r * i + r) % (i + 1)

RECURSIVE fisherYates(_, _, _)
fisherYates(shuffled, r, i) ==
  IF i <= 0 THEN shuffled
  ELSE CHOOSE result \in
         {fisherYates([deck EXCEPT ![i + 1] = deck[j + 1], ![j + 1] = deck[i + 1]],
                      r, i - 1) : deck \in {shuffled}, j \in {randomIndex(r, i)}} : TRUE

\* shuffleDeck: Fisher-Yates from the last index down to 1
shuffleDeck(deck, r) == fisherYates(deck, r, Len(deck) - 1)

RandomStreams == 1..NumShuffles

\* shuffleDeck(createDeck()) for each random stream
shuffledDecks ==
  SubSeq([r \in RandomStreams |-> shuffleDeck(createDeck, r)], 1, NumShuffles)

\* Array.prototype.pop: the last element and the shortened array.
\* pop() of an empty array yields undefined and leaves it empty.
undefined == [isUndefined |-> TRUE]
popCard(deck) == IF Len(deck) = 0 THEN undefined ELSE deck[Len(deck)]
popRest(deck) == IF Len(deck) = 0 THEN deck ELSE SubSeq(deck, 1, Len(deck) - 1)

SeqRange(s) == {s[i] : i \in DOMAIN s}

\* Array.prototype.sort((a, b) => a - b) and sort((a, b) => b - a)
SortAsc(s) == SortSeq(s, LAMBDA a, b : a < b)
SortDesc(s) == SortSeq(s, LAMBDA a, b : a > b)

\* cards.map(c => c.value)
cardValues(cards) == [i \in 1..Len(cards) |-> cards[i].value]

\* countRanks: map value -> number of cards with that value
countRanks(cards) ==
  LET values == cardValues(cards)
  IN [v \in SeqRange(values) |-> Cardinality({i \in DOMAIN values : values[i] = v})]

\* faulty variant of isFlush: only the first two cards are compared
isFlushOfFirstTwo(cards) == cards[2].suit = cards[1].suit

isFlush(cards) == \A i \in DOMAIN cards : cards[i].suit = cards[1].suit

isStraight(cards) ==
  LET values == SortAsc(cardValues(cards))
  IN IF \A i \in 1..(Len(values) - 1) : values[i + 1] = values[i] + 1
     THEN TRUE
     ELSE values[5] = 14 /\ values = <<2, 3, 4, 5, 14>>

\* faulty variant of straightHigh: the ace of the wheel counts high
straightHighAce(cards) ==
  LET vals == SortAsc(cardValues(cards))
  IN vals[Len(vals)]

\* the local helper straightHigh of evaluateHand
straightHigh(cards) ==
  LET vals == SortAsc(cardValues(cards))
  IN IF vals = <<2, 3, 4, 5, 14>> THEN 5 ELSE vals[Len(vals)]

\* Object.keys(rankCounts).map(Number): the keys of an object with integer
\* keys come in ascending order
AllValuesAsc == [i \in 1..Len(RANKS) |-> i + 1]
rankKeys(rankCounts) == SelectSeq(AllValuesAsc, LAMBDA v : v \in DOMAIN rankCounts)

\* groups of evaluateHand: (value, count) sorted by count desc, value desc
sortGroups(rankCounts) ==
  LET keys == rankKeys(rankCounts)
  IN SortSeq([i \in 1..Len(keys) |-> [v |-> keys[i], count |-> rankCounts[keys[i]]]],
             LAMBDA a, b : a.count > b.count \/ (a.count = b.count /\ a.v > b.v))

\* groups.filter(g => g.count === n).map(g => g.v); find takes its first entry
groupValues(groups, n) ==
  LET found == SelectSeq(groups, LAMBDA g : g.count = n)
  IN [i \in 1..Len(found) |-> found[i].v]

\* Object.values(rankCounts).sort((a, b) => b - a)
sortCounts(rankCounts) ==
  LET keys == rankKeys(rankCounts)
  IN SortDesc([i \in 1..Len(keys) |-> rankCounts[keys[i]]])

\* the return of evaluateHand from the constants computed at its head
rankHand(cards, isFlushHand, isStraightHand, counts, uniqueValsDesc, groups) ==
  LET count0 == counts[1]
      count1 == IF Len(counts) >= 2 THEN counts[2] ELSE 0
  IN
  IF /\ isFlushHand /\ isStraightHand /\ uniqueValsDesc[1] = 14
     /\ Len(uniqueValsDesc) >= 5 /\ uniqueValsDesc[5] = 10
  THEN [rank |-> ROYAL_FLUSH, value |-> <<14>>, description |-> "Royal Flush"]
  ELSE IF isFlushHand /\ isStraightHand
  THEN [rank |-> STRAIGHT_FLUSH, value |-> <<straightHigh(cards)>>,
        description |-> "Straight Flush"]
  ELSE IF count0 = 4
  THEN [rank |-> FOUR_OF_KIND,
        value |-> <<groupValues(groups, 4)[1], groupValues(groups, 1)[1]>>,
        description |-> "Four of a Kind"]
  ELSE IF count0 = 3 /\ count1 = 2
  THEN [rank |-> FULL_HOUSE,
        value |-> <<groupValues(groups, 3)[1], groupValues(groups, 2)[1]>>,
        description |-> "Full House"]
  ELSE IF isFlushHand
  THEN [rank |-> FLUSH, value |-> uniqueValsDesc, description |-> "Flush"]
  ELSE IF isStraightHand
  THEN [rank |-> STRAIGHT, value |-> <<straightHigh(cards)>>,
        description |-> "Straight"]
  ELSE IF count0 = 3
  THEN [rank |-> THREE_OF_KIND,
        value |-> <<groupValues(groups, 3)[1]>> \o SortDesc(groupValues(groups, 1)),
        description |-> "Three of a Kind"]
  ELSE IF count0 = 2 /\ count1 = 2
  THEN [rank |-> TWO_PAIR,
        value |-> LET pairs == SortDesc(groupValues(groups, 2))
                  IN <<pairs[1], pairs[2], groupValues(groups, 1)[1]>>,
        description |-> "Two Pair"]
  ELSE IF count0 = 2
  THEN [rank |-> PAIR,
        value |-> <<groupValues(groups, 2)[1]>> \o SortDesc(groupValues(groups, 1)),
        description |-> "Pair"]
  ELSE [rank |-> HIGH_CARD, value |-> uniqueValsDesc, description |-> "High Card"]

\* evaluateHand: each constant of its head is computed once
evaluateHand(cards) ==
  CHOOSE evaluation \in
    {rankHand(cards, isFlushHand, isStraightHand, counts, uniqueValsDesc, groups) :
       isFlushHand \in {isFlush(cards)},
       isStraightHand \in {isStraight(cards)},
       counts \in {sortCounts(countRanks(cards))},
       uniqueValsDesc \in {SortDesc(rankKeys(countRanks(cards)))},
       groups \in {sortGroups(countRanks(cards))}} : TRUE

\* the loop of compareHands from index i (1-based) on: a comparison against
\* a missing element of hand2.value is false either way
RECURSIVE compareValues(_, _, _)
compareValues(value1, value2, i) ==
  IF i > Len(value1) THEN 0
  ELSE IF i <= Len(value2) /\ value1[i] > value2[i] THEN 1
  ELSE IF i <= Len(value2) /\ value1[i] < value2[i] THEN -1
  ELSE compareValues(value1, value2, i + 1)

\* faulty variant of compareHands: only the first element of the value vectors
\* is compared
compareFirstValue(hand1, hand2) ==
  IF hand1.rank > hand2.rank THEN 1
  ELSE IF hand1.rank < hand2.rank THEN -1
  ELSE IF hand1.value[1] > hand2.value[1] THEN 1
  ELSE IF hand1.value[1] < hand2.value[1] THEN -1
  ELSE 0

\* compareHands: rank first, then the value vectors element by element
compareHands(hand1, hand2) ==
  IF hand1.rank > hand2.rank THEN 1
  ELSE IF hand1.rank < hand2.rank THEN -1
  ELSE compareValues(hand1.value, hand2.value, 1)

\* getCombinations(arr, k): all k-length subsequences, in generation order
RECURSIVE getCombinations(_, _)
getCombinations(arr, k) ==
  IF k = 1 THEN [i \in DOMAIN arr |-> <<arr[i]>>]
  ELSE IF k = Len(arr) THEN <<arr>>
  ELSE LET RECURSIVE from(_)
           from(i) ==
             IF i > Len(arr) - k + 1 THEN <<>>
             ELSE LET tailCombos == getCombinations(SubSeq(arr, i + 1, Len(arr)), k - 1)
                  IN [n \in DOMAIN tailCombos |-> <<arr[i]>> \o tailCombos[n]] \o from(i + 1)
       IN from(1)

\* faulty variant of the loop of findBestHand: the first combination is kept
firstOfCombos(combinations, n, bestHand) ==
  CHOOSE best \in
    {[rank |-> evaluation.rank, value |-> evaluation.value,
      description |-> evaluation.description, cards |-> combinations[1]] :
       evaluation \in {evaluateHand(combinations[1])}} : TRUE

\* findBestHand: null under 5 cards, else the first maximum of the combinations
RECURSIVE bestOfCombos(_, _, _)
bestOfCombos(combinations, n, bestHand) ==
  IF n > Len(combinations) THEN bestHand
  ELSE CHOOSE best \in
         {IF bestHand = nullObject \/ compareHands(evaluation, bestHand) > 0
          THEN bestOfCombos(combinations, n + 1,
                 [rank |-> evaluation.rank, value |-> evaluation.value,
                  description |-> evaluation.description, cards |-> combinations[n]])
          ELSE bestOfCombos(combinations, n + 1, bestHand) :
            evaluation \in {evaluateHand(combinations[n])}} : TRUE

findBestHand(holeCards, communityCards) ==
  LET allCards == holeCards \o communityCards
  IN IF Len(allCards) < 5 THEN nullObject
     ELSE bestOfCombos(getCombinations(allCards, 5), 1, nullObject)

(* ---------------------------------------------------------------------- *)
(* gameLogic.js                                                            *)
(* ---------------------------------------------------------------------- *)
WAITING == "WAITING"
ANTE == "ANTE"
PREFLOP == "PREFLOP"
FLOP == "FLOP"
TURN == "TURN"
RIVER == "RIVER"
SHOWDOWN == "SHOWDOWN"
SHOOTING == "SHOOTING"
GAME_OVER == "GAME_OVER"

FOLD == "FOLD"
CHECK == "CHECK"
CALL == "CALL"
RAISE == "RAISE"
ALL_IN == "ALL_IN"
\* Object.values(ACTIONS)
ACTION_VALUES == {FOLD, CHECK, CALL, RAISE, ALL_IN}

MAX_BULLETS == 8
ANTE_AMOUNT == 1
RAISE_AMOUNT == 1

Min(a, b) == IF a < b THEN a ELSE b

createGameState ==
  [phase |-> WAITING,
   players |-> [player1 |-> nullObject, player2 |-> nullObject],
   viewers |-> <<>>,
   deck |-> <<>>,
   communityCards |-> <<>>,
   pot |-> 0,
   currentBet |-> 0,
   player1Hand |-> <<>>,
   player2Hand |-> <<>>,
   player1Bullets |-> MAX_BULLETS,
   player2Bullets |-> MAX_BULLETS,
   player1Committed |-> 0,
   player2Committed |-> 0,
   activePlayer |-> null,
   lastAction |-> nullObject,
   winner |-> null,
   loser |-> null,
   handResult |-> nullObject]

\* addPlayer: the role assigned and the state after it
addPlayer(gameState, socketId, nickname) ==
  IF gameState.players.player1 = nullObject
  THEN [role |-> "player1",
        gameState |-> [gameState EXCEPT !.players.player1 =
                         [socketId |-> socketId, nickname |-> nickname, hasSwitched |-> FALSE]]]
  ELSE IF gameState.players.player2 = nullObject
  THEN [role |-> "player2",
        gameState |-> [gameState EXCEPT !.players.player2 =
                         [socketId |-> socketId, nickname |-> nickname, hasSwitched |-> FALSE]]]
  ELSE [role |-> "viewer",
        gameState |-> [gameState EXCEPT !.viewers =
                         Append(@, [socketId |-> socketId, nickname |-> nickname])]]

\* players.playerN?.socketId === socketId
hasSocketId(player, socketId) ==
  player # nullObject /\ player.socketId = socketId

removePlayer(gameState, socketId) ==
  IF hasSocketId(gameState.players.player1, socketId)
  THEN [gameState EXCEPT !.players.player1 = nullObject,
                         !.phase = WAITING,
                         !.player1Bullets = MAX_BULLETS]
  ELSE IF hasSocketId(gameState.players.player2, socketId)
  THEN [gameState EXCEPT !.players.player2 = nullObject,
                         !.phase = WAITING,
                         !.player2Bullets = MAX_BULLETS]
  ELSE [gameState EXCEPT !.viewers =
          SelectSeq(@, LAMBDA v : v.socketId # socketId)]

\* faulty variant of canStartGame: only the seats are tested, not the bullets
canStartWithSeats(gameState) ==
  gameState.players.player1 # nullObject /\ gameState.players.player2 # nullObject

canStartGame(gameState) ==
  /\ gameState.players.player1 # nullObject
  /\ gameState.players.player2 # nullObject
  /\ gameState.player1Bullets > 0
  /\ gameState.player2Bullets > 0

\* faulty variant of resetGame: the bullets are refilled, the commitments of
\* the finished hand are kept
resetKeepsCommitted(gameState) ==
  [gameState EXCEPT !.player1Bullets = MAX_BULLETS,
                    !.player2Bullets = MAX_BULLETS,
                    !.phase = WAITING,
                    !.deck = <<>>,
                    !.communityCards = <<>>,
                    !.currentBet = 0,
                    !.player1Hand = <<>>,
                    !.player2Hand = <<>>,
                    !.activePlayer = null,
                    !.lastAction = nullObject,
                    !.winner = null,
                    !.loser = null,
                    !.handResult = nullObject]

resetGame(gameState) ==
  [gameState EXCEPT !.player1Bullets = MAX_BULLETS,
                    !.player2Bullets = MAX_BULLETS,
                    !.phase = WAITING,
                    !.deck = <<>>,
                    !.communityCards = <<>>,
                    !.pot = 0,
                    !.currentBet = 0,
                    !.player1Hand = <<>>,
                    !.player2Hand = <<>>,
                    !.player1Committed = 0,
                    !.player2Committed = 0,
                    !.activePlayer = null,
                    !.lastAction = nullObject,
                    !.winner = null,
                    !.loser = null,
                    !.handResult = nullObject]

\* faulty variant of clearSwitched: the exchange-used flag survives the deal
keepSwitched(player) == player

\* players.playerN.hasSwitched = false, when the seat is occupied
clearSwitched(player) ==
  IF player # nullObject THEN [player EXCEPT !.hasSwitched = FALSE] ELSE player

\* startNewHand with the shuffle drawing from random stream r
startNewHand(gameState, r) ==
  IF gameState.player1Bullets <= 0 \/ gameState.player2Bullets <= 0
  THEN [gameState EXCEPT !.phase = GAME_OVER]
  ELSE LET deck0 == shuffledDecks[r]
           anteP1 == Min(ANTE_AMOUNT, gameState.player1Bullets)
           anteP2 == Min(ANTE_AMOUNT, gameState.player2Bullets)
           c1 == popCard(deck0)
           deck1 == popRest(deck0)
           c2 == popCard(deck1)
           deck2 == popRest(deck1)
           c3 == popCard(deck2)
           deck3 == popRest(deck2)
           c4 == popCard(deck3)
           deck4 == popRest(deck3)
       IN [gameState EXCEPT
             !.deck = deck4,
             !.communityCards = <<>>,
             !.pot = anteP1 + anteP2,
             !.currentBet = anteP1,
             !.player1Committed = anteP1,
             !.player2Committed = anteP2,
             !.lastAction = nullObject,
             !.winner = null,
             !.loser = null,
             !.handResult = nullObject,
             !.players.player1 = clearSwitched(@),
             !.players.player2 = clearSwitched(@),
             !.player1Bullets = @ - anteP1,
             !.player2Bullets = @ - anteP2,
             !.player1Hand = <<c1, c2>>,
             !.player2Hand = <<c3, c4>>,
             !.phase = PREFLOP,
             !.activePlayer = "player1"]

\* faulty variant of decideWinner: a decided showdown is left in SHOWDOWN
decideWinnerLater(gameState, hand1, hand2, comparison, r) ==
  LET decided == [gameState EXCEPT
                    !.winner = IF comparison > 0 THEN "player1"
                               ELSE IF comparison < 0 THEN "player2" ELSE null,
                    !.loser = IF comparison > 0 THEN "player2"
                              ELSE IF comparison < 0 THEN "player1" ELSE null,
                    !.handResult = [player1Hand |-> hand1, player2Hand |-> hand2]]
  IN IF decided.loser # null
     THEN decided
     ELSE startNewHand(decided, r)

\* determineWinner once both best hands are known
decideWinner(gameState, hand1, hand2, comparison, r) ==
  LET decided == [gameState EXCEPT
                    !.winner = IF comparison > 0 THEN "player1"
                               ELSE IF comparison < 0 THEN "player2" ELSE null,
                    !.loser = IF comparison > 0 THEN "player2"
                              ELSE IF comparison < 0 THEN "player1" ELSE null,
                    !.handResult = [player1Hand |-> hand1, player2Hand |-> hand2]]
  IN IF decided.loser # null
     THEN [decided EXCEPT !.phase = SHOOTING]
     ELSE startNewHand(decided, r)

determineWinner(gameState, r) ==
  CHOOSE decided \in
    {decideWinner(gameState, hand1, hand2, compareHands(hand1, hand2), r) :
       hand1 \in {findBestHand(gameState.player1Hand, gameState.communityCards)},
       hand2 \in {findBestHand(gameState.player2Hand, gameState.communityCards)}} : TRUE

\* while (communityCards.length < 5) communityCards.push(deck.pop())
RECURSIVE dealToFive(_)
dealToFive(gameState) ==
  IF Len(gameState.communityCards) < 5
  THEN dealToFive([gameState EXCEPT
                     !.communityCards = Append(@, popCard(gameState.deck)),
                     !.deck = popRest(@)])
  ELSE gameState

\* faulty variant of dealOne: two community cards are pushed
dealOneTwice(gameState) ==
  [gameState EXCEPT
     !.communityCards = @ \o <<popCard(gameState.deck), popCard(popRest(gameState.deck))>>,
     !.deck = popRest(popRest(@))]

\* one community card pushed from the top of the deck
dealOne(gameState) ==
  [gameState EXCEPT !.communityCards = Append(@, popCard(gameState.deck)),
                    !.deck = popRest(@)]

advancePhase(gameState, r) ==
  LET bothAllIn == gameState.player1Bullets = 0 /\ gameState.player2Bullets = 0
  IN
  IF bothAllIn \/ gameState.phase = RIVER
  THEN determineWinner([(IF bothAllIn THEN dealToFive(gameState) ELSE gameState)
                          EXCEPT !.phase = SHOWDOWN], r)
  ELSE CASE gameState.phase = PREFLOP ->
              LET d1 == popRest(gameState.deck)
                  d2 == popRest(d1)
              IN [gameState EXCEPT
                    !.communityCards = <<popCard(gameState.deck), popCard(d1), popCard(d2)>>,
                    !.deck = popRest(d2),
                    !.phase = FLOP,
                    !.activePlayer = "player1",
                    !.lastAction = nullObject]
         [] gameState.phase = FLOP ->
              [dealOne(gameState) EXCEPT !.phase = TURN,
                                         !.activePlayer = "player1",
                                         !.lastAction = nullObject]
         [] gameState.phase = TURN ->
              [dealOne(gameState) EXCEPT !.phase = RIVER,
                                         !.activePlayer = "player1",
                                         !.lastAction = nullObject]
         [] OTHER -> gameState

\* const opponent = player === 'player1' ? 'player2' : 'player1'
opponentOf(player) == IF player = "player1" THEN "player2" ELSE "player1"

\* faulty variant of rejected: the attempt is recorded in lastAction before
\* the validation returns
rejectedAfterWrite(gameState, message) ==
  [success |-> FALSE, message |-> message,
   gameState |-> [gameState EXCEPT
                    !.lastAction = [player |-> gameState.activePlayer,
                                    action |-> message]]]

\* return { success: false, message }: the state is left as it is
rejected(gameState, message) ==
  [success |-> FALSE, message |-> message, gameState |-> gameState]

\* return { success: true, message } with the state the case has written
accepted(gameState, message) ==
  [success |-> TRUE, message |-> message, gameState |-> gameState]

\* faulty variant of notYourTurn: the turn is validated only once a hand
\* has been decided
turnCheckedAfterHand(gameState, player) ==
  gameState.loser # null /\ gameState.activePlayer # player

\* the turn validation at the head of processAction
notYourTurn(gameState, player) == gameState.activePlayer # player

\* faulty variant of foldAction: the folding seat's commitment is cleared
foldClearsCommitment(gameState, player) ==
  accepted([gameState EXCEPT !.loser = player,
                             !.winner = opponentOf(player),
                             ![player \o "Committed"] = 0,
                             !.phase = SHOOTING],
           "folded")

\* case ACTIONS.FOLD
foldAction(gameState, player) ==
  accepted([gameState EXCEPT !.loser = player,
                             !.winner = opponentOf(player),
                             !.phase = SHOOTING],
           "folded")

\* faulty variant of checkAction: a check only passes the turn
checkPassesTurn(gameState, player, r) ==
  IF gameState[player \o "Committed"] # gameState[opponentOf(player) \o "Committed"]
  THEN rejected(gameState, "Cannot check, must call or fold")
  ELSE accepted([gameState EXCEPT
                   !.lastAction = [player |-> player, action |-> CHECK],
                   !.activePlayer = opponentOf(player)],
                "checked")

\* case ACTIONS.CHECK
checkAction(gameState, player, r) ==
  IF gameState[player \o "Committed"] # gameState[opponentOf(player) \o "Committed"]
  THEN rejected(gameState, "Cannot check, must call or fold")
  ELSE LET marked == [gameState EXCEPT
                        !.lastAction = [player |-> player, action |-> CHECK]]
       IN accepted(IF marked.lastAction # nullObject
                   THEN advancePhase(marked, r)
                   ELSE [marked EXCEPT !.activePlayer = opponentOf(player)],
                   "checked")

\* toCall of case ACTIONS.CALL
toCall(playerCommitted, opponentCommitted) ==
  IF opponentCommitted > playerCommitted
  THEN opponentCommitted - playerCommitted
  ELSE 1

\* faulty variant of callAction: the amount called is not added to the pot
callLeavesPot(gameState, player, r) ==
  LET opponent == opponentOf(player)
      playerBullets == gameState[player \o "Bullets"]
      amount == toCall(gameState[player \o "Committed"],
                       gameState[opponent \o "Committed"])
  IN IF playerBullets < amount
     THEN rejected(gameState, "Not enough bullets to call")
     ELSE LET paid == [gameState EXCEPT
                         ![player \o "Bullets"] = @ - amount,
                         ![player \o "Committed"] = @ + amount,
                         !.lastAction = [player |-> player, action |-> CALL]]
              newPlayerCommitted == paid[player \o "Committed"]
              newOpponentCommitted == paid[opponent \o "Committed"]
          IN accepted(IF newPlayerCommitted = newOpponentCommitted
                      THEN advancePhase(paid, r)
                      ELSE [paid EXCEPT !.activePlayer = opponent],
                      "called")

\* case ACTIONS.CALL
callAction(gameState, player, r) ==
  LET opponent == opponentOf(player)
      playerBullets == gameState[player \o "Bullets"]
      amount == toCall(gameState[player \o "Committed"],
                       gameState[opponent \o "Committed"])
  IN IF playerBullets < amount
     THEN rejected(gameState, "Not enough bullets to call")
     ELSE LET paid == [gameState EXCEPT
                         ![player \o "Bullets"] = @ - amount,
                         ![player \o "Committed"] = @ + amount,
                         !.pot = @ + amount,
                         !.lastAction = [player |-> player, action |-> CALL]]
              newPlayerCommitted == paid[player \o "Committed"]
              newOpponentCommitted == paid[opponent \o "Committed"]
          IN accepted(IF newPlayerCommitted = newOpponentCommitted
                      THEN advancePhase(paid, r)
                      ELSE [paid EXCEPT !.activePlayer = opponent],
                      "called")

\* totalNeeded of case ACTIONS.RAISE
totalNeeded(playerCommitted, opponentCommitted) ==
  LET raiseToCall == opponentCommitted - playerCommitted
  IN raiseToCall + RAISE_AMOUNT

\* case ACTIONS.RAISE
raiseAction(gameState, player) ==
  LET opponent == opponentOf(player)
      playerBullets == gameState[player \o "Bullets"]
      needed == totalNeeded(gameState[player \o "Committed"],
                            gameState[opponent \o "Committed"])
  IN IF playerBullets < needed
     THEN rejected(gameState, "Not enough bullets to raise")
     ELSE LET paid == [gameState EXCEPT
                         ![player \o "Bullets"] = @ - needed,
                         ![player \o "Committed"] = @ + needed,
                         !.pot = @ + needed]
          IN accepted([paid EXCEPT
                         !.currentBet = paid[player \o "Committed"],
                         !.lastAction = [player |-> player, action |-> RAISE],
                         !.activePlayer = opponent],
                      "raised")

\* case ACTIONS.ALL_IN
allInAction(gameState, player, r) ==
  LET opponent == opponentOf(player)
      playerBullets == gameState[player \o "Bullets"]
  IN IF playerBullets <= 0
     THEN rejected(gameState, "No bullets to go all-in")
     ELSE LET allInAmount == playerBullets
              paid == [gameState EXCEPT
                         ![player \o "Bullets"] = 0,
                         ![player \o "Committed"] = @ + allInAmount,
                         !.pot = @ + allInAmount]
              bet == [paid EXCEPT
                        !.currentBet = paid[player \o "Committed"],
                        !.lastAction = [player |-> player, action |-> ALL_IN]]
              opponentBullets == bet[opponent \o "Bullets"]
          IN accepted(IF opponentBullets = 0
                      THEN advancePhase(bet, r)
                      ELSE [bet EXCEPT !.activePlayer = opponent],
                      "went all-in")

\* processAction: the result returned and the state left behind; r is the
\* random stream of the shuffle should the action end in a tied showdown
processAction(gameState, player, action, r) ==
  IF notYourTurn(gameState, player)
  THEN rejected(gameState, "Not your turn")
  ELSE CASE action = FOLD -> foldAction(gameState, player)
         [] action = CHECK -> checkAction(gameState, player, r)
         [] action = CALL -> callAction(gameState, player, r)
         [] action = RAISE -> raiseAction(gameState, player)
         [] action = ALL_IN -> allInAction(gameState, player, r)
         [] OTHER -> rejected(gameState, "Invalid action")

\* executeShoot with Math.random() falling in [roll/8, (roll+1)/8)
executeShoot(gameState, roll) ==
  IF gameState.loser = null
  THEN [survived |-> TRUE, died |-> FALSE, loserCommitted |-> 0,
        message |-> "No one needs to shoot", gameState |-> gameState]
  ELSE LET loserCommitted == gameState[gameState.loser \o "Committed"]
           \* randomRoll < loserCommitted / MAX_BULLETS
           died == roll < loserCommitted
       IN IF died
          THEN [survived |-> FALSE, died |-> TRUE, loserCommitted |-> loserCommitted,
                message |-> "died",
                gameState |-> [gameState EXCEPT ![gameState.loser \o "Bullets"] = 0,
                                                !.phase = GAME_OVER]]
          ELSE [survived |-> TRUE, died |-> FALSE, loserCommitted |-> loserCommitted,
                message |-> "survived",
                gameState |-> [gameState EXCEPT !.phase = GAME_OVER]]

\* getAvailableActions: the set of the action strings pushed
getAvailableActions(gameState) ==
  LET player == gameState.activePlayer
  IN IF player = null THEN {}
     ELSE LET opponent == IF player = "player1" THEN "player2" ELSE "player1"
              playerBullets == gameState[player \o "Bullets"]
              playerCommitted == gameState[player \o "Committed"]
              opponentCommitted == gameState[opponent \o "Committed"]
          IN {FOLD}
             \cup (IF opponentCommitted > playerCommitted
                   THEN (IF playerBullets >= opponentCommitted - playerCommitted
                         THEN {CALL} ELSE {})
                   ELSE (IF playerBullets >= 1 THEN {CALL} ELSE {}))
             \cup (IF playerBullets > 0 THEN {ALL_IN} ELSE {})

(* ---------------------------------------------------------------------- *)
(* server.js: one game state, the connected sockets, the socket handlers.  *)
(* A handler is an operator from the state and the event to the reply and  *)
(* the state it leaves; the action of the same event applies it.           *)
(* ---------------------------------------------------------------------- *)
\* Connections come and go freely and a socket id is only a name: the server
\* keeps nothing of a connection but the seat or viewer entry made by its
\* join_game, which its disconnect removes.  So the live connections are no
\* state of their own; an event can arrive from any socket id at any time,
\* and a joining connection takes the smallest id that holds no entry.
VARIABLES
  gameState,     \* const gameState = createGameState()
  allowance      \* what this run may still spend: card exchanges, hands dealt,
                 \* betting actions outside the betting phases, disconnects,
                 \* and the length the viewers list may reach
VARIABLES
  evaluator      \* a use of the hand evaluator on its own: the cards passed
                 \* to evaluateHand, findBestHand and compareHands and what
                 \* they returned

vars == <<gameState, allowance, evaluator>>

\* the hand evaluator before any call: no cards, nothing returned
notCalled ==
  [holeCards |-> <<>>, communityCards |-> <<>>, evaluation |-> undefined,
   bestHand |-> undefined, otherCards |-> <<>>, comparison |-> undefined]

BETTING_PHASES == {PREFLOP, FLOP, TURN, RIVER}

getPlayerRole(gs, socketId) ==
  IF hasSocketId(gs.players.player1, socketId) THEN "player1"
  ELSE IF hasSocketId(gs.players.player2, socketId) THEN "player2"
  ELSE "viewer"

\* socket.emit('error', { message }) and return
error(gs, message) == [ok |-> FALSE, message |-> message, gameState |-> gs]
\* the handler ran to its end
done(gs, message) == [ok |-> TRUE, message |-> message, gameState |-> gs]

\* socket.on('join_game')
onJoinGame(gs, socket, nickname) ==
  IF nickname = ""
  THEN error(gs, "Nickname required")
  ELSE IF hasSocketId(gs.players.player1, socket) \/ hasSocketId(gs.players.player2, socket)
  THEN done(gs, "already joined")
  ELSE LET added == addPlayer(gs, socket, nickname)
       IN done(added.gameState, added.role)

\* socket.on('start_game')
onStartGame(gs, socket, r) ==
  IF ~canStartGame(gs)
  THEN error(gs, "Need 2 players to start")
  ELSE IF gs.phase # WAITING
  THEN error(gs, "Game already in progress")
  ELSE done(startNewHand(gs, r), "Starting new game...")

\* socket.on('reset_game')
onResetGame(gs, socket, r) ==
  IF gs.phase # GAME_OVER
  THEN error(gs, "Can only reset after game over")
  ELSE LET reset == resetGame(gs)
       IN done(IF canStartGame(reset) THEN startNewHand(reset, r) ELSE reset,
               "Resetting game and starting new hand...")

\* socket.on('player_action')
onPlayerAction(gs, socket, action, r) ==
  LET role == getPlayerRole(gs, socket)
  IN IF role = "viewer"
     THEN error(gs, "Viewers cannot perform actions")
     ELSE IF action \notin ACTION_VALUES
     THEN error(gs, "Invalid action")
     ELSE CHOOSE outcome \in
            {IF result.success
             THEN done(result.gameState, result.message)
             ELSE error(result.gameState, result.message) :
               result \in {processAction(gs, role, action, r)}} : TRUE

\* faulty variant of onShoot: the caller is not compared with the loser
onShootByAnyone(gs, socket, roll) ==
  IF gs.phase # SHOOTING
  THEN error(gs, "Not in shooting phase")
  ELSE LET result == executeShoot(gs, roll)
       IN done(result.gameState, result.message)

\* socket.on('shoot'); Math.random() of executeShoot falls in [roll/8, (roll+1)/8)
onShoot(gs, socket, roll) ==
  LET role == getPlayerRole(gs, socket)
  IN IF gs.phase # SHOOTING
     THEN error(gs, "Not in shooting phase")
     ELSE IF role # gs.loser
     THEN error(gs, "Only the loser can shoot")
     ELSE LET result == executeShoot(gs, roll)
          IN done(result.gameState, result.message)

\* socket.on('executeSwitch')
onExecuteSwitch(gs, socket, cardIndex, newCard) ==
  LET role == getPlayerRole(gs, socket)
      player == IF role = "viewer" THEN nullObject ELSE gs.players[role]
  IN IF player = nullObject \/ player.hasSwitched
     THEN error(gs, "Cannot switch cards")
     ELSE IF gs.player1Bullets = 0 \/ gs.player2Bullets = 0
     THEN error(gs, "Cannot switch when someone is all-in")
     ELSE LET hand == gs[role \o "Hand"]
          IN IF cardIndex < 0 \/ cardIndex >= Len(hand)
             THEN error(gs, "Invalid card index")
             ELSE LET oldCard == hand[cardIndex + 1]
                  IN done([gs EXCEPT
                             ![role \o "Hand"][cardIndex + 1] = newCard,
                             !.deck = Append(
                               SelectSeq(@, LAMBDA c :
                                 c.rank # newCard.rank \/ c.suit # newCard.suit),
                               oldCard),
                             !.players[role].hasSwitched = TRUE],
                          "switchSuccess")

\* socket.on('requestSwitchOptions'): the options drawn from the deck are
\* emitted to the caller, the state is not written
onRequestSwitchOptions(gs, socket) ==
  LET role == getPlayerRole(gs, socket)
      player == IF role = "viewer" THEN nullObject ELSE gs.players[role]
  IN IF player = nullObject \/ player.hasSwitched
     THEN error(gs, "Cannot switch cards")
     ELSE IF gs.player1Bullets = 0 \/ gs.player2Bullets = 0
     THEN error(gs, "Cannot switch when someone is all-in")
     ELSE done(gs, "switchOptionsReceived")

\* socket.on('disconnect')
onDisconnect(gs, socket) ==
  done(removePlayer(gs, socket), getPlayerRole(gs, socket))

\* the runs explored: one with several hands and every random stream, one
\* with a disconnect and late betting actions, one with a disconnect and a
\* hand dealt after it, one with viewers, one with a card exchange and a
\* disconnect
Profiles ==
  {[switches |-> 0, hands |-> MaxHands, lateActions |-> 0,
    disconnects |-> 0, viewers |-> 0, streams |-> NumShuffles],
   [switches |-> 0, hands |-> 1, lateActions |-> MaxLateActions,
    disconnects |-> MaxDisconnects, viewers |-> 0, streams |-> 1],
   [switches |-> 0, hands |-> MaxHands, lateActions |-> 0,
    disconnects |-> MaxDisconnects, viewers |-> 0, streams |-> 1],
   [switches |-> 0, hands |-> 1, lateActions |-> 0,
    disconnects |-> 0, viewers |-> MaxViewers, streams |-> 1],
   [switches |-> MaxSwitches, hands |-> 1, lateActions |-> 0,
    disconnects |-> MaxDisconnects, viewers |-> 0, streams |-> 1]}

Init ==
  /\ gameState = createGameState
  /\ allowance \in Profiles
  /\ evaluator = notCalled

\* a hand was dealt between the two states
dealsHand(before, after) == after.phase = PREFLOP /\ before.phase # PREFLOP

\* the handler took the game state from before to after, within the allowance
Step(after, late, switched, left) ==
  LET spent == [switches |-> IF switched THEN 1 ELSE 0,
                hands |-> IF dealsHand(gameState, after) THEN 1 ELSE 0,
                lateActions |-> IF late THEN 1 ELSE 0,
                disconnects |-> IF left THEN 1 ELSE 0]
  IN /\ spent.switches <= allowance.switches
     /\ spent.hands <= allowance.hands
     /\ spent.lateActions <= allowance.lateActions
     /\ spent.disconnects <= allowance.disconnects
     /\ Len(after.viewers) <= allowance.viewers
     /\ gameState' = after
     /\ allowance' = [allowance EXCEPT !.switches = @ - spent.switches,
                                       !.hands = @ - spent.hands,
                                       !.lateActions = @ - spent.lateActions,
                                       !.disconnects = @ - spent.disconnects]
     /\ UNCHANGED evaluator

Nicknames == {"", "Kaizen"}

\* the socket holds a seat or a viewer entry
hasJoined(gs, socket) ==
  \/ getPlayerRole(gs, socket) # "viewer"
  \/ \E i \in DOMAIN gs.viewers : gs.viewers[i].socketId = socket

\* Each action binds the handler's outcome h once and steps to the state it
\* leaves.
JoinGame(socket, nickname) ==
  /\ hasJoined(gameState, socket) \/ \A o \in 1..(socket - 1) : hasJoined(gameState, o)
  /\ \E h \in {onJoinGame(gameState, socket, nickname)} :
       Step(h.gameState, FALSE, FALSE, FALSE)

StartGame(socket, r) ==
  /\ gameState.phase = WAITING => allowance.hands > 0
  /\ \E h \in {onStartGame(gameState, socket, r)} :
       Step(h.gameState, FALSE, FALSE, FALSE)

ResetGame(socket, r) ==
  /\ gameState.phase = GAME_OVER => allowance.hands > 0
  /\ \E h \in {onResetGame(gameState, socket, r)} :
       Step(h.gameState, FALSE, FALSE, FALSE)

\* the random streams a shuffle of this run can draw from
Streams == 1..allowance.streams

\* The shuffle is the only use of the random stream, so one is drawn only
\* where the action deals a hand (after a tied showdown).
PlayerAction(socket, action) ==
  /\ gameState.phase \in BETTING_PHASES \/ allowance.lateActions > 0
  /\ \E h \in {onPlayerAction(gameState, socket, action, 1)} :
       LET late == h.ok /\ gameState.phase \notin BETTING_PHASES
       IN IF dealsHand(gameState, h.gameState)
          THEN \E r \in Streams :
                 \E dealt \in {onPlayerAction(gameState, socket, action, r)} :
                   Step(dealt.gameState, late, FALSE, FALSE)
          ELSE Step(h.gameState, late, FALSE, FALSE)

Rolls == 0..(MAX_BULLETS - 1)

Shoot(socket, roll) ==
  \E h \in {onShoot(gameState, socket, roll)} :
    Step(h.gameState, FALSE, FALSE, FALSE)

\* the cards a client sends as newCard: the bottom card of the deck, the
\* opponent's first hole card
SwitchCards(gs, role) ==
  LET other == IF role = "player1" THEN gs.player2Hand ELSE gs.player1Hand
  IN (IF Len(gs.deck) > 0 THEN {gs.deck[1]} ELSE {})
     \cup (IF Len(other) > 0 THEN {other[1]} ELSE {createDeck[1]})

CardIndices == {-1, 0, 2}

ExecuteSwitch(socket, cardIndex, newCard) ==
  /\ allowance.switches > 0
  /\ \E h \in {onExecuteSwitch(gameState, socket, cardIndex, newCard)} :
       Step(h.gameState, FALSE, h.ok, FALSE)

Disconnect(socket) ==
  /\ allowance.disconnects > 0
  /\ \E h \in {onDisconnect(gameState, socket)} :
       Step(h.gameState, FALSE, FALSE, hasJoined(gameState, socket))

\* the action strings a client sends: the five actions and an unknown one
ActionInputs == ACTION_VALUES \cup {"BET"}

\* two seats, the viewers, and one connection that has not joined
SocketIds == 1..(MaxViewers + 3)
Sockets == 1..(allowance.viewers + 3)

Next ==
  \/ \E socket \in Sockets, nickname \in Nicknames : JoinGame(socket, nickname)
  \/ \E socket \in Sockets, r \in Streams : StartGame(socket, r)
  \/ \E socket \in Sockets, r \in Streams : ResetGame(socket, r)
  \/ \E socket \in Sockets, action \in ActionInputs :
       PlayerAction(socket, action)
  \/ \E socket \in Sockets, roll \in Rolls : Shoot(socket, roll)
  \/ \E socket \in Sockets, cardIndex \in CardIndices :
       \E newCard \in SwitchCards(gameState, getPlayerRole(gameState, socket)) :
         ExecuteSwitch(socket, cardIndex, newCard)
  \/ \E socket \in Sockets : Disconnect(socket)

Spec == Init /\ [][Next]_vars

(* ---------------------------------------------------------------------- *)
(* The hand evaluator on its own                                           *)
(* ---------------------------------------------------------------------- *)
\* the card of createDeck with the value and the suit
suitIndex(suit) == CHOOSE i \in DOMAIN SUITS : SUITS[i] = suit
cardOf(value, suit) == createDeck[(suitIndex(suit) - 1) * Len(RANKS) + value - 1]
cardsOf(pairs) == [i \in DOMAIN pairs |-> cardOf(pairs[i][1], pairs[i][2])]

\* the cards of a sequence at the indices of a set, in the order of the sequence
cardsAt(cards, indices) ==
  LET indexed == [i \in DOMAIN cards |-> [index |-> i, card |-> cards[i]]]
      kept == SelectSeq(indexed, LAMBDA e : e.index \in indices)
  IN [k \in DOMAIN kept |-> kept[k].card]

\* all hands of HandSize cards of a sequence of cards
HandSize == 5
handsOf(cards) ==
  {cardsAt(cards, indices) :
     indices \in {S \in SUBSET DOMAIN cards : Cardinality(S) = HandSize}}

\* nine cards whose hands cover high card, pair, two pair, three of a kind,
\* full house, flush, the wheel and the wheel as straight flush
SmallDeck ==
  cardsOf(<<<<2, "S">>, <<3, "S">>, <<4, "S">>, <<5, "S">>, <<14, "S">>,
            <<9, "S">>, <<2, "C">>, <<9, "C">>, <<2, "H">>>>)

\* hands of every category, with the neighbours that differ in one kicker,
\* in the high card of a straight, or in the suits only
ExampleHands ==
  {cardsOf(h) : h \in
    {<<<<10, "S">>, <<11, "S">>, <<12, "S">>, <<13, "S">>, <<14, "S">>>>,
     <<<<2, "D">>, <<2, "C">>, <<2, "H">>, <<9, "S">>, <<9, "D">>>>,
     <<<<9, "D">>, <<2, "C">>, <<9, "H">>, <<9, "S">>, <<2, "D">>>>,
     <<<<14, "S">>, <<2, "C">>, <<3, "H">>, <<4, "D">>, <<5, "S">>>>,
     <<<<6, "S">>, <<2, "C">>, <<3, "H">>, <<4, "D">>, <<5, "S">>>>,
     <<<<13, "H">>, <<10, "C">>, <<14, "H">>, <<11, "D">>, <<12, "S">>>>,
     <<<<13, "H">>, <<9, "H">>, <<10, "H">>, <<11, "H">>, <<12, "H">>>>,
     <<<<9, "S">>, <<9, "C">>, <<2, "S">>, <<9, "H">>, <<9, "D">>>>,
     <<<<9, "S">>, <<9, "C">>, <<13, "S">>, <<9, "H">>, <<9, "D">>>>,
     <<<<9, "D">>, <<14, "D">>, <<13, "D">>, <<12, "D">>, <<11, "D">>>>,
     <<<<9, "C">>, <<14, "D">>, <<13, "D">>, <<12, "D">>, <<11, "D">>>>,
     <<<<7, "S">>, <<13, "C">>, <<7, "H">>, <<2, "D">>, <<7, "D">>>>,
     <<<<13, "S">>, <<7, "C">>, <<14, "H">>, <<7, "D">>, <<13, "D">>>>,
     <<<<13, "S">>, <<7, "C">>, <<2, "H">>, <<7, "D">>, <<13, "D">>>>,
     <<<<7, "S">>, <<14, "C">>, <<13, "H">>, <<2, "D">>, <<7, "D">>>>,
     <<<<7, "H">>, <<14, "S">>, <<13, "C">>, <<2, "C">>, <<7, "C">>>>,
     <<<<7, "S">>, <<14, "C">>, <<13, "H">>, <<3, "D">>, <<7, "D">>>>,
     <<<<7, "S">>, <<5, "C">>, <<4, "H">>, <<3, "D">>, <<2, "D">>>>}}

FiveCardHands == handsOf(SmallDeck) \cup ExampleHands

\* hole cards and boards for findBestHand: before the flop, on the flop, the
\* turn and the river; with one hole card and with none
HoleCards ==
  {cardsOf(h) : h \in
    {<<<<14, "S">>, <<13, "S">>>>, <<<<2, "C">>, <<7, "D">>>>,
     <<<<9, "H">>, <<9, "C">>>>, <<<<5, "D">>, <<4, "D">>>>,
     <<<<14, "H">>>>, <<>>}}
Boards ==
  {cardsOf(b) : b \in
    {<<<<12, "S">>, <<11, "S">>, <<10, "S">>, <<9, "S">>, <<9, "D">>>>,
     <<<<2, "D">>, <<3, "D">>, <<14, "D">>, <<2, "H">>, <<6, "D">>>>,
     <<<<10, "H">>, <<11, "C">>, <<12, "D">>, <<13, "H">>, <<14, "C">>>>}}
StreetLengths == {0, 3, 4, 5}

Deals ==
  {[holeCards |-> SubSeq(hand, 1, 2), communityCards |-> SubSeq(hand, 3, 5)] :
     hand \in FiveCardHands}
  \cup {[holeCards |-> hole, communityCards |-> SubSeq(board, 1, n)] :
          hole \in HoleCards, board \in Boards, n \in StreetLengths}

\* the run spends nothing on the match
noAllowance ==
  [switches |-> 0, hands |-> 0, lateActions |-> 0, disconnects |-> 0,
   viewers |-> 0, streams |-> 1]

EvalInit ==
  /\ gameState = createGameState
  /\ allowance = noAllowance
  /\ evaluator \in {[notCalled EXCEPT !.holeCards = deal.holeCards,
                                      !.communityCards = deal.communityCards] :
                      deal \in Deals}

\* the cards the evaluator holds
heldCards(ev) == ev.holeCards \o ev.communityCards

\* the orders in which a caller can pass five cards
Orders == Permutations(1..HandSize)

\* evaluateHand(cards) on the held cards passed in the order, before the
\* evaluation is compared; it throws unless there are exactly 5
EvaluateHand(order) ==
  /\ Len(heldCards(evaluator)) = HandSize
  /\ evaluator.otherCards = <<>>
  /\ evaluator' =
       [evaluator EXCEPT !.evaluation =
          evaluateHand([i \in 1..HandSize |-> heldCards(evaluator)[order[i]]])]
  /\ UNCHANGED <<gameState, allowance>>

\* findBestHand(holeCards, communityCards)
FindBestHand ==
  /\ evaluator' =
       [evaluator EXCEPT !.bestHand =
          findBestHand(evaluator.holeCards, evaluator.communityCards)]
  /\ UNCHANGED <<gameState, allowance>>

\* compareHands(evaluation, evaluateHand(otherCards))
CompareHands(otherCards) ==
  /\ evaluator.evaluation # undefined
  /\ evaluator' =
       [evaluator EXCEPT !.otherCards = otherCards,
                         !.comparison =
                           compareHands(evaluator.evaluation,
                                        evaluateHand(otherCards))]
  /\ UNCHANGED <<gameState, allowance>>

EvalNext ==
  \/ \E order \in Orders : EvaluateHand(order)
  \/ FindBestHand
  \/ \E otherCards \in ExampleHands : CompareHands(otherCards)

EvalSpec == EvalInit /\ [][EvalNext]_vars

(* ---------------------------------------------------------------------- *)
(* Properties                                                              *)
(* ---------------------------------------------------------------------- *)
SEATS == {"player1", "player2"}

bulletsOf(gs, seat) == gs[seat \o "Bullets"]
committedOf(gs, seat) == gs[seat \o "Committed"]

\* both seats are taken and the hand is in a betting phase
InBetting ==
  /\ gameState.phase \in BETTING_PHASES
  /\ gameState.players.player1 # nullObject
  /\ gameState.players.player2 # nullObject

\* C1: every rejected betting action (wrong turn, CHECK with unequal
\* commitments, CALL or RAISE without the bullets, ALL_IN with 0 bullets,
\* unknown action) leaves every field of the game state as it was.
C1_RejectedActionChangesNothing ==
  \A player \in SEATS, action \in ActionInputs :
    \A result \in {processAction(gameState, player, action, 1)} :
      ~result.success => result.gameState = gameState

\* a betting state in which a wrong turn, a CHECK with unequal commitments, a
\* RAISE without the bullets and an unknown action are all rejected
C1_Witness ==
  /\ InBetting
  /\ gameState.activePlayer = "player2"
  /\ processAction(gameState, "player1", CALL, 1).message = "Not your turn"
  /\ processAction(gameState, "player2", CHECK, 1).message
       = "Cannot check, must call or fold"
  /\ processAction(gameState, "player2", RAISE, 1).message
       = "Not enough bullets to raise"
  /\ processAction(gameState, "player2", "BET", 1).message = "Invalid action"

\* the seat has some action accepted in the current state
CanAct(seat) ==
  \/ processAction(gameState, seat, FOLD, 1).success
  \/ \E action \in ActionInputs : processAction(gameState, seat, action, 1).success

\* C2: whatever the state, an action from the seat that is not the active one
\* is rejected with 'Not your turn' and changes nothing, through the engine
\* and through the player_action handler; at most one seat can have a betting
\* action accepted in a state.
C2_OnlyActiveSeatActs ==
  /\ \A player \in SEATS, action \in ActionInputs :
       player # gameState.activePlayer =>
         processAction(gameState, player, action, 1)
           = [success |-> FALSE, message |-> "Not your turn", gameState |-> gameState]
  /\ \A socket \in SocketIds, action \in ACTION_VALUES :
       LET role == getPlayerRole(gameState, socket)
       IN role # "viewer" /\ role # gameState.activePlayer =>
            onPlayerAction(gameState, socket, action, 1)
              = [ok |-> FALSE, message |-> "Not your turn", gameState |-> gameState]
  /\ ~(CanAct("player1") /\ CanAct("player2"))

\* both seats are connected, player1 is to act: its FOLD is accepted and
\* player2's FOLD is rejected
C2_Witness ==
  /\ InBetting
  /\ gameState.activePlayer = "player1"
  /\ onPlayerAction(gameState, gameState.players.player1.socketId, FOLD, 1).ok
  /\ onPlayerAction(gameState, gameState.players.player2.socketId, FOLD, 1).message
       = "Not your turn"

\* C3: betting actions are accepted only in PREFLOP, FLOP, TURN and RIVER; in
\* WAITING, SHOOTING and GAME_OVER every betting action of either seat is
\* rejected and changes nothing.
C3_BettingOnlyInBettingPhases ==
  gameState.phase \notin BETTING_PHASES =>
    \A player \in SEATS, action \in ACTION_VALUES :
      \A result \in {processAction(gameState, player, action, 1)} :
        ~result.success /\ result.gameState = gameState

\* each seat's remaining and committed bullets are within 0..MAX_BULLETS
BulletsInRange ==
  \A seat \in SEATS :
    /\ bulletsOf(gameState, seat) \in 0..MAX_BULLETS
    /\ committedOf(gameState, seat) \in 0..MAX_BULLETS

\* the step is an explicit reset: reset_game in GAME_OVER
IsReset ==
  /\ gameState.phase = GAME_OVER
  /\ \E r \in RandomStreams : gameState' = onResetGame(gameState, 1, r).gameState

\* No step but a reset creates bullets: a step that deals a hand leaves a seat
\* with committed + remaining equal to at most what it held before it, and any
\* other step neither raises committed + remaining nor raises remaining.
NoBulletsCreated ==
  IsReset \/
  \A seat \in SEATS :
    LET held == bulletsOf(gameState, seat) + committedOf(gameState, seat)
        holds == bulletsOf(gameState', seat) + committedOf(gameState', seat)
    IN IF dealsHand(gameState, gameState')
       THEN holds <= bulletsOf(gameState, seat)
       ELSE holds <= held /\ bulletsOf(gameState', seat) <= bulletsOf(gameState, seat)

\* C4: in every reachable state each seat's remaining and committed bullets
\* are within 0..8, committed + remaining never exceeds what the seat held at
\* the start of the hand, and no operation other than an explicit reset
\* creates bullets or moves them back from committed to remaining.
C4_BulletsNeverCreated == []BulletsInRange /\ [][NoBulletsCreated]_vars

\* the cards of the four piles, in order
allCards(gs) == gs.player1Hand \o gs.player2Hand \o gs.communityCards \o gs.deck

\* C5: from the start of a hand on, after every operation the two hands, the
\* community cards and the deck are pairwise disjoint and together are exactly
\* the 52 cards: none duplicated, none lost.
C5_CardsPartition ==
  Len(gameState.player1Hand) > 0 =>
    /\ Len(allCards(gameState)) = Len(createDeck)
    /\ SeqRange(allCards(gameState)) = SeqRange(createDeck)

\* the legal actions of the seat to act, by the stated rule
legalActions(gs) ==
  LET player == gs.activePlayer
      opponent == opponentOf(player)
      remaining == bulletsOf(gs, player)
      gap == committedOf(gs, opponent) - committedOf(gs, player)
  IN {FOLD}
     \cup (IF (gap = 0 /\ remaining >= 1) \/ (gap > 0 /\ remaining >= gap)
           THEN {CALL} ELSE {})
     \cup (IF remaining >= gap + 1 THEN {RAISE} ELSE {})
     \cup (IF remaining > 0 THEN {ALL_IN} ELSE {})

\* C6: for the seat to act the computed legal-action set is exactly FOLD
\* always, CALL iff commitments are equal and the seat has a bullet or the
\* opponent has committed more and the seat covers the gap, RAISE iff the seat
\* covers the gap plus 1, ALL_IN iff the seat has bullets left.
C6_LegalActionSet ==
  InBetting => getAvailableActions(gameState) = legalActions(gameState)

\* C7: an action is accepted only if it is in the legal-action set computed
\* for the acting seat in that state.
C7_AcceptedOnlyIfLegal ==
  InBetting =>
    \A action \in ACTION_VALUES :
      processAction(gameState, gameState.activePlayer, action, 1).success
        => action \in getAvailableActions(gameState)

\* the seat has paid amount: it left remaining and went to committed and pot
Paid(before, after, seat, amount) ==
  /\ bulletsOf(after, seat) = bulletsOf(before, seat) - amount
  /\ committedOf(after, seat) = committedOf(before, seat) + amount
  /\ after.pot = before.pot + amount

\* C8: CALL by the acting seat costs max(1, opponentCommitted - selfCommitted);
\* it is rejected iff the seat has fewer bullets; on success the amount moves
\* from remaining to committed and pot, and then the phase advances if the
\* commitments are equal, else the turn passes with the phase unchanged.
C8_CallSemantics ==
  gameState.activePlayer # null =>
    LET player == gameState.activePlayer
        opponent == opponentOf(player)
        gap == committedOf(gameState, opponent) - committedOf(gameState, player)
        cost == IF gap > 1 THEN gap ELSE 1
    IN \A result \in {processAction(gameState, player, CALL, 1)} :
         /\ result.success <=> bulletsOf(gameState, player) >= cost
         /\ result.success =>
              IF committedOf(gameState, player) + cost = committedOf(gameState, opponent)
              THEN /\ result.gameState.phase # gameState.phase
                   /\ \/ dealsHand(gameState, result.gameState)
                      \/ Paid(gameState, result.gameState, player, cost)
              ELSE /\ Paid(gameState, result.gameState, player, cost)
                   /\ result.gameState.phase = gameState.phase
                   /\ result.gameState.activePlayer = opponent

\* C9: RAISE by the acting seat moves (opponentCommitted - selfCommitted) + 1
\* bullets from remaining to committed and pot, is rejected iff the seat has
\* fewer, always passes the turn without changing the phase, and the amount
\* moved by an accepted RAISE is at least 1 in every reachable state.
C9_RaiseSemantics ==
  gameState.activePlayer # null =>
    LET player == gameState.activePlayer
        opponent == opponentOf(player)
        amount == committedOf(gameState, opponent) - committedOf(gameState, player) + 1
    IN \A result \in {processAction(gameState, player, RAISE, 1)} :
         /\ result.success <=> bulletsOf(gameState, player) >= amount
         /\ result.success =>
              /\ Paid(gameState, result.gameState, player, amount)
              /\ result.gameState.phase = gameState.phase
              /\ result.gameState.activePlayer = opponent
              /\ amount >= 1

\* the opponent of seat has gone all-in and seat, with bullets left, is to
\* respond
FacingAllIn(gs, seat) ==
  /\ gs.activePlayer = seat
  /\ gs.lastAction = [player |-> opponentOf(seat), action |-> ALL_IN]
  /\ bulletsOf(gs, opponentOf(seat)) = 0
  /\ bulletsOf(gs, seat) > 0

\* C10: ALL_IN is accepted iff the acting seat has bullets left; it sets the
\* seat's remaining bullets to 0 and adds the former balance to its commitment
\* and to the pot; if the opponent has bullets left the phase is unchanged and
\* the turn passes to the opponent, who can then respond by folding, by
\* calling the gap, or by going all-in: each of the three is accepted.
C10_AllInSemantics ==
  gameState.activePlayer # null =>
    LET player == gameState.activePlayer
        opponent == opponentOf(player)
        balance == bulletsOf(gameState, player)
    IN /\ \A result \in {processAction(gameState, player, ALL_IN, 1)} :
            /\ result.success <=> balance > 0
            /\ result.success =>
                 /\ bulletsOf(result.gameState, player) = 0
                 /\ Paid(gameState, result.gameState, player, balance)
                 /\ bulletsOf(gameState, opponent) > 0 =>
                      /\ result.gameState.phase = gameState.phase
                      /\ FacingAllIn(result.gameState, opponent)
       /\ FacingAllIn(gameState, player) =>
            /\ processAction(gameState, player, FOLD, 1).success
            /\ processAction(gameState, player, ALL_IN, 1).success
            /\ processAction(gameState, player, CALL, 1).success

\* C11: CHECK is accepted only when both commitments are equal and it ends
\* only the acting seat's turn: the opponent is then to act on the same
\* street, and the street closes only when the opponent had already checked
\* on it.
C11_CheckPassesTurn ==
  InBetting =>
    LET player == gameState.activePlayer
        opponent == opponentOf(player)
    IN \A result \in {processAction(gameState, player, CHECK, 1)} :
         result.success =>
           /\ committedOf(gameState, player) = committedOf(gameState, opponent)
           /\ IF gameState.lastAction = [player |-> opponent, action |-> CHECK]
              THEN result.gameState.phase # gameState.phase
              ELSE /\ result.gameState.phase = gameState.phase
                   /\ result.gameState.activePlayer = opponent

\* C12: FOLD by the acting seat in a betting phase is accepted, sets loser to
\* that seat, winner to the opponent and phase to SHOOTING, and changes
\* nothing else: bullets, commitments, pot, community cards, deck and hole
\* cards (and every other field) are as before, through the engine and
\* through the player_action handler.
C12_FoldFrame ==
  InBetting =>
    LET player == gameState.activePlayer
        folded == [gameState EXCEPT !.loser = player,
                                    !.winner = opponentOf(player),
                                    !.phase = SHOOTING]
    IN /\ \A result \in {processAction(gameState, player, FOLD, 1)} :
            result.success /\ result.gameState = folded
       /\ \A h \in {onPlayerAction(gameState, gameState.players[player].socketId, FOLD, 1)} :
            h.ok /\ h.gameState = folded

\* a hand folded on the flop after a raise: no showdown result, three
\* community cards, the pot above the antes, the winner and loser set
C12_Witness ==
  /\ gameState.phase = SHOOTING
  /\ gameState.handResult = nullObject
  /\ gameState.loser = "player2" /\ gameState.winner = "player1"
  /\ Len(gameState.communityCards) = 3
  /\ gameState.pot > 2 * ANTE_AMOUNT
  /\ gameState.pot = gameState.player1Committed + gameState.player2Committed

\* a step taken with the hand's loser determined that neither starts the
\* next hand nor is a reset leaves the community cards, the showdown result,
\* the winner, the loser and the loser's commitment as they are
HandStaysDecided ==
  (gameState.loser # null /\ ~dealsHand(gameState, gameState') /\ ~IsReset) =>
    /\ gameState'.communityCards = gameState.communityCards
    /\ gameState'.handResult = gameState.handResult
    /\ gameState'.winner = gameState.winner
    /\ gameState'.loser = gameState.loser
    /\ committedOf(gameState', gameState.loser) = committedOf(gameState, gameState.loser)

\* C13: once a hand's loser has been determined (by fold or by showdown),
\* then until the next hand starts no community card is dealt, no showdown
\* evaluation runs, winner and loser do not change and the loser's committed
\* bullet count does not change.
C13_DecidedHandIsFrozen == [][HandStaysDecided]_vars

\* the number of community cards of each betting phase
streetCards(phase) ==
  CASE phase = PREFLOP -> 0 [] phase = FLOP -> 3 [] phase = TURN -> 4 [] phase = RIVER -> 5

\* in a betting phase the community cards are as many as the phase says
CommunityMatchesPhase ==
  gameState.phase \in BETTING_PHASES =>
    Len(gameState.communityCards) = streetCards(gameState.phase)

\* the last n cards of the deck in the order they are popped
popped(deck, n) == [i \in 1..n |-> deck[Len(deck) + 1 - i]]

\* the step deals n community cards from the top of the deck
DealsCommunity(n) ==
  /\ gameState'.communityCards = gameState.communityCards \o popped(gameState.deck, n)
  /\ gameState'.deck = SubSeq(gameState.deck, 1, Len(gameState.deck) - n)

\* a step out of a betting phase: a fold, a seat leaving, the next street
\* with its cards dealt, the showdown after the river with no card dealt, or
\* the run-out with both seats at 0 bullets; a step that stays in the phase
\* deals no community card
StreetOrder ==
  gameState.phase \in BETTING_PHASES =>
    IF gameState'.phase = gameState.phase
    THEN gameState'.communityCards = gameState.communityCards
    ELSE \/ gameState'.phase = SHOOTING /\ gameState'.handResult = nullObject
         \/ gameState'.phase = WAITING
         \/ gameState.phase = PREFLOP /\ gameState'.phase = FLOP /\ DealsCommunity(3)
         \/ gameState.phase = FLOP /\ gameState'.phase = TURN /\ DealsCommunity(1)
         \/ gameState.phase = TURN /\ gameState'.phase = RIVER /\ DealsCommunity(1)
         \/ /\ gameState.phase = RIVER
            /\ \/ gameState'.phase = SHOOTING /\ DealsCommunity(0)
               \/ dealsHand(gameState, gameState')
         \/ gameState'.player1Bullets = 0 /\ gameState'.player2Bullets = 0

\* C14: in every reachable state the number of community cards matches the
\* phase (0 in PREFLOP, 3 in FLOP, 4 in TURN, 5 in RIVER), and a closing
\* betting round moves the phase exactly one street forward, dealing 3, 1, 1
\* and no card, never skipping or repeating a street unless both seats are at
\* 0 remaining bullets.
C14_StreetsInOrder == []CommunityMatchesPhase /\ [][StreetOrder]_vars

\* the river reached street by street: five community cards, 43 in the deck
C14_Witness ==
  /\ gameState.phase = RIVER
  /\ Len(gameState.communityCards) = 5
  /\ Len(gameState.deck) = 43
  /\ gameState.player1Bullets > 0 /\ gameState.player2Bullets > 0

\* getGameStateForSocket: the availableActions sent to the connection
availableActionsFor(gs, socketId) ==
  LET role == getPlayerRole(gs, socketId)
  IN IF role # "viewer" /\ gs.activePlayer = role
     THEN getAvailableActions(gs)
     ELSE {}

\* the step is a bet of the acting seat that closes the betting round with
\* both seats at 0 remaining bullets: a CALL that makes the commitments equal
\* or an ALL_IN against an opponent already at 0
ClosesAllIn ==
  /\ gameState.phase \in BETTING_PHASES
  /\ gameState'.pot > gameState.pot
  /\ gameState'.player1Bullets = 0 /\ gameState'.player2Bullets = 0
  /\ \/ gameState'.lastAction = [player |-> gameState.activePlayer, action |-> ALL_IN]
     \/ /\ gameState'.lastAction = [player |-> gameState.activePlayer, action |-> CALL]
        /\ gameState'.player1Committed = gameState'.player2Committed

\* after such a step the showdown has run on five community cards
ShowdownOnFive ==
  ClosesAllIn =>
    /\ gameState'.phase \notin BETTING_PHASES
    /\ Len(gameState'.communityCards) = 5
    /\ gameState'.handResult # nullObject

\* after such a step no connection is offered a betting action
NoActionRequested ==
  ClosesAllIn =>
    \A socket \in SocketIds : availableActionsFor(gameState', socket) = {}

\* C15: whenever a betting round closes while both seats hold 0 remaining
\* bullets, the engine goes directly to showdown from whatever street it is
\* on, with exactly 5 community cards dealt and with no further betting
\* action requested from either seat.
C15_AllInRunOut == [][ShowdownOnFive /\ NoActionRequested]_vars

\* the comparison of the two best hands on the five community cards the
\* showdown of this hand is run on
showdownComparison(gs) ==
  LET community == dealToFive(gs).communityCards
  IN compareHands(findBestHand(gs.player1Hand, community),
                  findBestHand(gs.player2Hand, community))

\* the accepted bet has run the showdown: it left the river, or it left the
\* betting phases without a fold
showdownRan(before, after) ==
  /\ after.phase # before.phase
  /\ before.phase = RIVER \/ after.phase \notin BETTING_PHASES

\* C16: when a bet runs the showdown, the seat whose best hand compares
\* strictly greater is winner, the other is loser and the phase is SHOOTING;
\* when the best hands compare equal, winner and loser are cleared, a new
\* hand is started at once with the antes collected again, and no
\* elimination shot is accepted for the tied hand.
C16_ShowdownResolution ==
  InBetting =>
    \A action \in {CHECK, CALL, ALL_IN}, r \in RandomStreams :
      \A result \in {processAction(gameState, gameState.activePlayer, action, r)} :
        (result.success /\ showdownRan(gameState, result.gameState)) =>
          \A comparison \in {showdownComparison(gameState)} :
            LET after == result.gameState
            IN /\ comparison > 0 =>
                    after.winner = "player1" /\ after.loser = "player2"
                      /\ after.phase = SHOOTING
               /\ comparison < 0 =>
                    after.winner = "player2" /\ after.loser = "player1"
                      /\ after.phase = SHOOTING
               /\ comparison = 0 =>
                    /\ after.winner = null /\ after.loser = null
                    /\ after.phase = PREFLOP
                    /\ after.player1Committed = ANTE_AMOUNT
                    /\ after.player2Committed = ANTE_AMOUNT
                    /\ after.pot = 2 * ANTE_AMOUNT
                    /\ \A socket \in SocketIds, roll \in Rolls :
                         ~onShoot(after, socket, roll).ok

\* C17: starting a hand with both seats holding at least 1 bullet yields
\* phase PREFLOP, each seat's remaining bullets reduced by exactly 1 and its
\* commitment equal to 1, pot 2, two hole cards per seat, no community card,
\* 48 cards left in the deck, winner, loser and showdown result cleared, the
\* exchange-used flag of each occupied seat reset, and seat 1 to act; the
\* start_game handler, when it accepts, leaves exactly that state.
C17_NewHand ==
  (gameState.player1Bullets >= 1 /\ gameState.player2Bullets >= 1) =>
    \A r \in RandomStreams :
      \A hand \in {startNewHand(gameState, r)} :
        /\ hand.phase = PREFLOP
        /\ \A seat \in SEATS :
             /\ bulletsOf(hand, seat) = bulletsOf(gameState, seat) - 1
             /\ committedOf(hand, seat) = 1
             /\ Len(hand[seat \o "Hand"]) = 2
             /\ hand.players[seat] # nullObject => ~hand.players[seat].hasSwitched
        /\ hand.pot = 2
        /\ hand.communityCards = <<>>
        /\ Len(hand.deck) = 48
        /\ hand.winner = null /\ hand.loser = null /\ hand.handResult = nullObject
        /\ hand.activePlayer = "player1"
        /\ \A socket \in SocketIds :
             \A h \in {onStartGame(gameState, socket, r)} :
               h.ok => h.gameState = hand

\* a second hand just dealt: after a reset both seats are back at 7 bullets
\* with the antes in the pot and seat 1 to act
C17_Witness ==
  /\ allowance.hands = 0 /\ allowance.streams = NumShuffles
  /\ gameState.phase = PREFLOP
  /\ gameState.activePlayer = "player1"
  /\ gameState.lastAction = nullObject
  /\ Len(gameState.deck) = 48
  /\ gameState.pot = 2
  /\ gameState.player1Bullets = MAX_BULLETS - 1
  /\ gameState.player2Bullets = MAX_BULLETS - 1

\* a seat is at 0 remaining bullets
SeatAtZero == gameState.player1Bullets = 0 \/ gameState.player2Bullets = 0

\* C18: a start request made with fewer than two seats occupied or with a
\* seat at 0 bullets fails and changes nothing: no ante, no card dealt, no
\* betting phase entered; and a hand started by the engine with a seat at 0
\* bullets only sets the phase to GAME_OVER.
C18_StartFails ==
  \A r \in RandomStreams :
    /\ (\/ gameState.players.player1 = nullObject
        \/ gameState.players.player2 = nullObject
        \/ SeatAtZero) =>
         \A socket \in SocketIds :
           onStartGame(gameState, socket, r)
             = [ok |-> FALSE, message |-> "Need 2 players to start",
                gameState |-> gameState]
    /\ SeatAtZero =>
         startNewHand(gameState, r) = [gameState EXCEPT !.phase = GAME_OVER]

\* both seats occupied and the game waiting to start, one seat at 0 bullets:
\* the start request is refused
C18_Witness ==
  /\ gameState.phase = WAITING
  /\ gameState.players.player1 # nullObject
  /\ gameState.players.player2 # nullObject
  /\ SeatAtZero
  /\ ~onStartGame(gameState, gameState.players.player1.socketId, 1).ok

\* C19: the elimination shot is accepted only when the phase is SHOOTING and
\* the caller holds the loser's seat; a shot requested in any other phase, by
\* the winner or by a viewer is rejected and leaves the state unchanged.
C19_OnlyLoserShoots ==
  \A socket \in SocketIds, roll \in Rolls :
    \A h \in {onShoot(gameState, socket, roll)} :
      LET role == getPlayerRole(gameState, socket)
          entitled == gameState.phase = SHOOTING /\ role # "viewer"
                        /\ role = gameState.loser
      IN /\ h.ok => entitled
         /\ ~entitled => ~h.ok /\ h.gameState = gameState

\* a hand decided with a viewer connected: the loser's shot is accepted, the
\* winner's and the viewer's are refused
C19_Witness ==
  /\ gameState.phase = SHOOTING
  /\ gameState.loser # null /\ gameState.winner # null
  /\ gameState.players[gameState.loser] # nullObject
  /\ gameState.players[gameState.winner] # nullObject
  /\ onShoot(gameState, gameState.players[gameState.loser].socketId, 0).ok
  /\ ~onShoot(gameState, gameState.players[gameState.winner].socketId, 0).ok
  /\ Len(gameState.viewers) > 0
  /\ \E socket \in SocketIds :
       /\ getPlayerRole(gameState, socket) = "viewer"
       /\ onShoot(gameState, socket, 0).message = "Only the loser can shoot"

\* C20: when the shot is resolved the loser's commitment is within 1..8, so
\* the death probability loserCommitted / 8 never exceeds 1; the loser dies
\* iff roll < loserCommitted / 8 (the roll taken in eighths), always with a
\* commitment of 8; on death the loser's remaining bullets become 0, on
\* survival no bullet count changes, and either way the phase is GAME_OVER
\* and nothing else changes.
C20_ShotResolution ==
  (gameState.phase = SHOOTING /\ gameState.loser # null) =>
    LET loser == gameState.loser
        loserCommitted == committedOf(gameState, loser)
    IN /\ loserCommitted \in 1..MAX_BULLETS
       /\ \A roll \in Rolls :
            \A result \in {executeShoot(gameState, roll)} :
              /\ result.died <=> roll < loserCommitted
              /\ loserCommitted = MAX_BULLETS => result.died
              /\ result.gameState =
                   IF result.died
                   THEN [gameState EXCEPT ![loser \o "Bullets"] = 0,
                                          !.phase = GAME_OVER]
                   ELSE [gameState EXCEPT !.phase = GAME_OVER]

\* a step taken after the shot has been resolved that is not a reset does not
\* bring the phase back to SHOOTING
NoSecondRoll ==
  (gameState.phase = GAME_OVER /\ gameState.loser # null /\ ~IsReset) =>
    gameState'.phase # SHOOTING

\* C21: the elimination roll is a single irreversible step: after a shot has
\* been resolved no message other than a reset brings the phase from
\* GAME_OVER back to SHOOTING, where the shot could be rolled again.
C21_RollIsIrreversible == [][NoSecondRoll]_vars

\* C22: when the loser survives the shot a new hand starts automatically and
\* play continues (the shot that is survived leaves the match in PREFLOP);
\* the game is in GAME_OVER only when a player has died, i.e. a seat is at 0
\* remaining bullets.
C22_GameLoopsUntilDeath ==
  /\ gameState.phase = GAME_OVER => SeatAtZero
  /\ (gameState.phase = SHOOTING /\ gameState.loser # null) =>
       \A roll \in Rolls :
         \A result \in {executeShoot(gameState, roll)} :
           result.survived => result.gameState.phase = PREFLOP

\* the seat is taken and its occupant has exchanged a card
hasExchanged(gs, seat) ==
  gs.players[seat] # nullObject /\ gs.players[seat].hasSwitched

\* an exchange request of a seat that has exchanged, or made with a seat at 0
\* bullets, is rejected and changes nothing
ExchangeRefused ==
  \A socket \in SocketIds :
    LET role == getPlayerRole(gameState, socket)
    IN (role # "viewer" /\ (hasExchanged(gameState, role) \/ SeatAtZero)) =>
         /\ \A h \in {onRequestSwitchOptions(gameState, socket)} :
              ~h.ok /\ h.gameState = gameState
         /\ \A cardIndex \in CardIndices :
              \A newCard \in SwitchCards(gameState, role) :
                \A h \in {onExecuteSwitch(gameState, socket, cardIndex, newCard)} :
                  ~h.ok /\ h.gameState = gameState

\* a seat that has exchanged stays so until a hand is dealt
FlagKept ==
  \A seat \in SEATS :
    (hasExchanged(gameState, seat) /\ ~dealsHand(gameState, gameState')) =>
      hasExchanged(gameState', seat)

\* C23: a seat exchanges a hole card at most once per hand: a request for
\* options or an exchange is rejected when the seat has already exchanged or
\* when either seat has 0 bullets left, and the exchange-used flag of a seat is
\* cleared only by the start of a new hand.
C23_OneExchangePerHand == []ExchangeRefused /\ [][FlagKept]_vars

\* C24: an exchange fails and changes nothing when the chosen card is not in
\* the undealt deck (a dealt card, a community card, a hole card of either
\* seat) and when the index of the hand card is out of range.
C24_ExchangeNeedsDeckCard ==
  \A socket \in SocketIds :
    LET role == getPlayerRole(gameState, socket)
    IN role # "viewer" =>
         \A cardIndex \in CardIndices :
           \A newCard \in SwitchCards(gameState, role) :
             (\/ newCard \notin SeqRange(gameState.deck)
              \/ cardIndex < 0
              \/ cardIndex >= Len(gameState[role \o "Hand"])) =>
               \A h \in {onExecuteSwitch(gameState, socket, cardIndex, newCard)} :
                 ~h.ok /\ h.gameState = gameState

\* getGameStateForSocket: the player entry of the view
playerView(gs, seat) ==
  IF gs.players[seat] = nullObject THEN nullObject
  ELSE [nickname |-> gs.players[seat].nickname,
        bullets |-> bulletsOf(gs, seat),
        committed |-> committedOf(gs, seat),
        hasSwitched |-> gs.players[seat].hasSwitched,
        isAllIn |-> bulletsOf(gs, seat) = 0]

\* getGameStateForSocket: yourHand and yourHandStrength, set for a seat only
ownHandView(gs, role) ==
  IF role = "viewer" THEN <<>>
  ELSE LET hand == gs[role \o "Hand"]
       IN [yourHand |-> hand] @@
          (IF Len(hand) > 0
           THEN CHOOSE strength \in
                  {IF bestHand = nullObject THEN <<>>
                   ELSE [yourHandStrength |-> bestHand.description] :
                     bestHand \in {findBestHand(hand, gs.communityCards)}} : TRUE
           ELSE <<>>)

\* getGameStateForSocket: the hands and the result, revealed from showdown on
revealedView(gs) ==
  IF gs.phase \in {SHOWDOWN, SHOOTING, GAME_OVER}
  THEN [player1Hand |-> gs.player1Hand, player2Hand |-> gs.player2Hand,
        handResult |-> gs.handResult]
  ELSE <<>>

\* getGameStateForSocket: the state object sent to the connection
getGameStateForSocket(gs, socketId) ==
  [phase |-> gs.phase,
   players |-> [player1 |-> playerView(gs, "player1"),
                player2 |-> playerView(gs, "player2")],
   communityCards |-> gs.communityCards,
   pot |-> gs.pot,
   currentBet |-> gs.currentBet,
   activePlayer |-> gs.activePlayer,
   winner |-> gs.winner,
   loser |-> gs.loser,
   yourRole |-> getPlayerRole(gs, socketId),
   availableActions |-> availableActionsFor(gs, socketId)]
  @@ ownHandView(gs, getPlayerRole(gs, socketId))
  @@ revealedView(gs)

\* the seats whose hole cards the connection does not hold
opposing(role) == SEATS \ {role}

\* the hole cards another deal could have given a seat
otherHands(gs) ==
  {<<>>} \cup (IF Len(gs.deck) >= 2 THEN {<<gs.deck[1], gs.deck[2]>>} ELSE {})

\* before the showdown the view of a connection is the same whatever hole
\* cards the opposing seats hold
HidesOpposingHand ==
  gameState.phase \notin {SHOWDOWN, SHOOTING, GAME_OVER} =>
    \A socket \in SocketIds :
      \A view \in {getGameStateForSocket(gameState, socket)} :
        \A seat \in opposing(view.yourRole) :
          \A hand \in otherHands(gameState) :
            getGameStateForSocket(
              [gameState EXCEPT ![seat \o "Hand"] = hand], socket) = view

\* a view carries legal actions only for the seat that is to act in a
\* betting phase
ActionsOnlyForActor ==
  \A socket \in SocketIds :
    availableActionsFor(gameState, socket) # {} =>
      /\ gameState.phase \in BETTING_PHASES
      /\ getPlayerRole(gameState, socket) = gameState.activePlayer

\* C25: the view sent to a connection holds nothing of the opposing seat's
\* hole cards unless the phase is SHOWDOWN, SHOOTING or GAME_OVER (two states
\* that differ only in those cards give the same view), and its legal-action
\* set is non-empty only for the seat that is to act.
C25_ViewIsRedacted == HidesOpposingHand /\ ActionsOnlyForActor

\* the phase, bullets, commitments, pot, cards and turn of the match
matchOf(gs) ==
  <<gs.phase, gs.player1Bullets, gs.player2Bullets, gs.player1Committed,
    gs.player2Committed, gs.pot, gs.player1Hand, gs.player2Hand,
    gs.communityCards, gs.deck, gs.activePlayer>>

\* what each message of the connection would leave as game state: a betting
\* action, a shot, an exchange, a start, a reset
outcomesOf(gs, socket) ==
  {onPlayerAction(gs, socket, action, r).gameState :
     action \in ActionInputs, r \in RandomStreams}
  \cup {onShoot(gs, socket, roll).gameState : roll \in Rolls}
  \cup {onExecuteSwitch(gs, socket, cardIndex, newCard).gameState :
          cardIndex \in CardIndices, newCard \in SwitchCards(gs, "viewer")}
  \cup {onStartGame(gs, socket, r).gameState : r \in RandomStreams}
  \cup {onResetGame(gs, socket, r).gameState : r \in RandomStreams}

\* C26: a connection that holds neither seat has no state-mutating rights: no
\* betting action, shot, exchange, start or reset it sends changes the phase,
\* bullets, commitments, pot, cards or turn of the match.
C26_ViewersChangeNothing ==
  \A socket \in SocketIds :
    getPlayerRole(gameState, socket) = "viewer" =>
      \A after \in outcomesOf(gameState, socket) :
        matchOf(after) = matchOf(gameState)

\* C27: in every reachable state the pot equals the sum of the two seats'
\* committed bullets.
C27_PotIsSumOfCommitted ==
  gameState.pot = gameState.player1Committed + gameState.player2Committed

\* a betting phase with bullets committed beyond the antes, unevenly
C27_Witness ==
  /\ InBetting
  /\ gameState.pot > 2 * ANTE_AMOUNT
  /\ gameState.player1Committed # gameState.player2Committed

\* the step raises the commitment of the seat within the hand
Commits(seat) ==
  /\ ~dealsHand(gameState, gameState')
  /\ committedOf(gameState', seat) > committedOf(gameState, seat)

\* the step is an ALL_IN of the seat, or its CALL of an opponent who is at 0
\* bullets
WentAllIn(seat) ==
  \/ gameState'.lastAction = [player |-> seat, action |-> ALL_IN]
  \/ /\ gameState'.lastAction = [player |-> seat, action |-> CALL]
     /\ bulletsOf(gameState, opponentOf(seat)) = 0

\* a betting step takes a seat's commitment above the ante plus one bullet
\* per street only by an all-in, and never above the 8 bullets of a seat
MaxBetPerHand == 1 + Cardinality(BETTING_PHASES)
CommitsAboveMaxOnlyAllIn ==
  \A seat \in SEATS :
    (InBetting /\ Commits(seat) /\ committedOf(gameState', seat) > MaxBetPerHand) =>
      /\ WentAllIn(seat)
      /\ committedOf(gameState', seat) <= MAX_BULLETS

\* C28: within one hand a seat that has not gone all-in never has more than 5
\* bullets committed (the ante plus at most one bullet per street); a
\* commitment above 5, up to 8, is reached only through an ALL_IN.
C28_MaxBetPerHand == [][CommitsAboveMaxOnlyAllIn]_vars

\* the socket holds a seat
seated(gs, socket) == getPlayerRole(gs, socket) # "viewer"

\* C29: when a seated player disconnects the game is reset to WAITING: the
\* phase becomes WAITING and the interrupted hand is abandoned, so that no seat
\* is to act and no betting action or shot of the interrupted hand is accepted
\* afterwards.
C29_DisconnectAbandonsHand ==
  \A socket \in SocketIds :
    seated(gameState, socket) =>
      \A left \in {onDisconnect(gameState, socket).gameState} :
        /\ left.phase = WAITING
        /\ left.activePlayer = null
        /\ \A other \in SocketIds :
             /\ availableActionsFor(left, other) = {}
             /\ \A action \in ACTION_VALUES, r \in RandomStreams :
                  \A h \in {onPlayerAction(left, other, action, r)} :
                    ~h.ok /\ h.gameState = left
             /\ \A roll \in Rolls :
                  \A h \in {onShoot(left, other, roll)} :
                    ~h.ok /\ h.gameState = left

valuesIn(cards) == {cards[i].value : i \in DOMAIN cards}
timesIn(cards, v) == Cardinality({i \in DOMAIN cards : cards[i].value = v})
heldTimes(cards, n) == {v \in valuesIn(cards) : timesIn(cards, v) = n}

\* the greatest value of a set and the set in descending order
maxOf(values) == CHOOSE v \in values : \A w \in values : w <= v
RECURSIVE descending(_)
descending(values) ==
  IF values = {} THEN <<>>
  ELSE <<maxOf(values)>> \o descending(values \ {maxOf(values)})

\* the categories by their definition in poker
Wheel == {2, 3, 4, 5, 14}
oneSuit(cards) == Cardinality({cards[i].suit : i \in DOMAIN cards}) = 1
inSequence(cards) ==
  /\ Cardinality(valuesIn(cards)) = HandSize
  /\ \/ valuesIn(cards) = Wheel
     \/ \A v \in valuesIn(cards) : v > maxOf(valuesIn(cards)) - HandSize
sequenceHigh(cards) ==
  IF valuesIn(cards) = Wheel THEN 5 ELSE maxOf(valuesIn(cards))

\* the highest category of the precedence order the hand satisfies, with the
\* tie-break vector of that category
expectedRank(cards) ==
  LET values == valuesIn(cards)
      quads == heldTimes(cards, 4)
      trips == heldTimes(cards, 3)
      pairs == heldTimes(cards, 2)
      singles == heldTimes(cards, 1)
  IN IF oneSuit(cards) /\ inSequence(cards) /\ values = 10..14
     THEN [rank |-> ROYAL_FLUSH, value |-> <<14>>]
     ELSE IF oneSuit(cards) /\ inSequence(cards)
     THEN [rank |-> STRAIGHT_FLUSH, value |-> <<sequenceHigh(cards)>>]
     ELSE IF quads # {}
     THEN [rank |-> FOUR_OF_KIND, value |-> descending(quads) \o descending(singles)]
     ELSE IF trips # {} /\ pairs # {}
     THEN [rank |-> FULL_HOUSE, value |-> descending(trips) \o descending(pairs)]
     ELSE IF oneSuit(cards)
     THEN [rank |-> FLUSH, value |-> descending(values)]
     ELSE IF inSequence(cards)
     THEN [rank |-> STRAIGHT, value |-> <<sequenceHigh(cards)>>]
     ELSE IF trips # {}
     THEN [rank |-> THREE_OF_KIND, value |-> descending(trips) \o descending(singles)]
     ELSE IF Cardinality(pairs) = 2
     THEN [rank |-> TWO_PAIR, value |-> descending(pairs) \o descending(singles)]
     ELSE IF Cardinality(pairs) = 1
     THEN [rank |-> PAIR, value |-> descending(pairs) \o descending(singles)]
     ELSE [rank |-> HIGH_CARD, value |-> descending(values)]

\* the ranks of the hand as a multiset
rankMultiset(cards) == [v \in valuesIn(cards) |-> timesIn(cards, v)]

\* C31: for every 5-card hand evaluateHand returns the highest category of
\* the precedence order that the hand satisfies with that category's
\* tie-break vector (A-K-Q-J-10 suited is Royal Flush [14]; 2,2,2,9,9 is Full
\* House [2, 9]; the wheel is a straight or straight flush with high card 5),
\* and two hands of the same category compare equal only when their rank
\* multisets are identical.
C31_RankIsHighestCategory ==
  evaluator.evaluation # undefined =>
    /\ \A expected \in {expectedRank(heldCards(evaluator))} :
         /\ evaluator.evaluation.rank = expected.rank
         /\ evaluator.evaluation.value = expected.value
    /\ evaluator.otherCards # <<>> =>
         \A other \in {evaluateHand(evaluator.otherCards)} :
           (other.rank = evaluator.evaluation.rank /\ evaluator.comparison = 0) =>
             rankMultiset(evaluator.otherCards)
               = rankMultiset(heldCards(evaluator))

\* the examples of the claim evaluated, and a hand compared equal with a hand
\* of the same ranks in other suits
C31_Witness ==
  /\ evaluator.evaluation # undefined
  /\ evaluator.otherCards # <<>>
  /\ evaluator.comparison = 0
  /\ evaluator.evaluation.rank = PAIR
  /\ heldCards(evaluator) # evaluator.otherCards
  /\ evaluateHand(cardsOf(<<<<10, "S">>, <<11, "S">>, <<12, "S">>, <<13, "S">>,
                            <<14, "S">>>>)).value = <<14>>
  /\ evaluateHand(cardsOf(<<<<2, "D">>, <<2, "C">>, <<2, "H">>, <<9, "S">>,
                            <<9, "D">>>>)).value = <<2, 9>>

\* the sign of an integer
sign(n) == IF n > 0 THEN 1 ELSE IF n < 0 THEN -1 ELSE 0

\* the order by category first, then by the tie-break vector element by
\* element
RECURSIVE lexicographic(_, _)
lexicographic(value1, value2) ==
  IF value1 = <<>> \/ value2 = <<>> THEN sign(Len(value1) - Len(value2))
  ELSE IF Head(value1) # Head(value2) THEN sign(Head(value1) - Head(value2))
  ELSE lexicographic(Tail(value1), Tail(value2))
categoryThenVector(hand1, hand2) ==
  IF hand1.rank # hand2.rank THEN sign(hand1.rank - hand2.rank)
  ELSE lexicographic(hand1.value, hand2.value)

\* the evaluations of the example hands
EvaluatedExamples == {evaluateHand(cards) : cards \in ExampleHands}

\* C32: compareHands on evaluated hands is a total order: compare(a, b) =
\* -compare(b, a); it is transitive; compare(a, b) = 0 exactly when a and b
\* have the same category and the same full tie-break vector; the category
\* decides first and the tie-break vector is compared element by element.
C32_CompareIsTotalOrder ==
  evaluator.otherCards # <<>> =>
    \A a \in {evaluator.evaluation} :
      \A b \in {evaluateHand(evaluator.otherCards)} :
        /\ evaluator.comparison \in {-1, 0, 1}
        /\ compareHands(b, a) = -evaluator.comparison
        /\ evaluator.comparison = 0 <=> (a.rank = b.rank /\ a.value = b.value)
        /\ evaluator.comparison = categoryThenVector(a, b)
        /\ \A c \in EvaluatedExamples :
             \A bc \in {compareHands(b, c)} :
               \A ac \in {compareHands(a, c)} :
                 /\ (evaluator.comparison >= 0 /\ bc >= 0) => ac >= 0
                 /\ (evaluator.comparison >= 0 /\ bc >= 0
                       /\ (evaluator.comparison > 0 \/ bc > 0)) => ac > 0

\* two pairs of sevens with ace and king compared: the last kicker decides
C32_Witness ==
  /\ evaluator.otherCards # <<>>
  /\ evaluator.evaluation.rank = PAIR
  /\ evaluator.evaluation.value = <<7, 14, 13, 2>>
  /\ evaluateHand(evaluator.otherCards).value = <<7, 14, 13, 3>>
  /\ evaluator.comparison = -1

\* C33: evaluateHand depends only on the set of its 5 cards: in whatever
\* order the cards are passed, the category returned (always in 1..10) and
\* the tie-break vector are those of the cards as held.
C33_RankIgnoresOrder ==
  evaluator.evaluation # undefined =>
    /\ evaluator.evaluation.rank \in HIGH_CARD..ROYAL_FLUSH
    /\ \A inOrder \in {evaluateHand(heldCards(evaluator))} :
         /\ evaluator.evaluation.rank = inOrder.rank
         /\ evaluator.evaluation.value = inOrder.value

\* a hand with four cards of one suit and kickers out of order has been
\* evaluated
C33_Witness ==
  /\ evaluator.evaluation # undefined
  /\ evaluator.otherCards = <<>>
  /\ Cardinality({i \in 1..HandSize : heldCards(evaluator)[i].suit = "S"}) = 4
  /\ evaluator.evaluation.rank = HIGH_CARD
  /\ cardValues(heldCards(evaluator)) # evaluator.evaluation.value

\* C34: findBestHand returns null when fewer than 5 cards are held in total,
\* and otherwise an evaluated 5-card subset of the held cards such that no
\* other 5-card subset (of the 1, 6 or 21) compares strictly greater.
C34_BestOfIsMaximum ==
  evaluator.bestHand # undefined =>
    \A best \in {evaluator.bestHand} :
      IF Len(heldCards(evaluator)) < HandSize
      THEN best = nullObject
      ELSE /\ best # nullObject
           /\ best.cards \in handsOf(heldCards(evaluator))
           /\ Cardinality(handsOf(heldCards(evaluator))) \in {1, 6, 21}
           /\ \A evaluation \in {evaluateHand(best.cards)} :
                best.rank = evaluation.rank /\ best.value = evaluation.value
           /\ \A hand \in handsOf(heldCards(evaluator)) :
                compareHands(evaluateHand(hand), best) <= 0

\* seven cards held and the best hand found is not the first combination,
\* which compares lower
C34_Witness ==
  /\ evaluator.bestHand # undefined
  /\ Len(heldCards(evaluator)) = 7
  /\ evaluator.bestHand.cards # SubSeq(heldCards(evaluator), 1, HandSize)
  /\ compareHands(evaluateHand(SubSeq(heldCards(evaluator), 1, HandSize)),
                  evaluator.bestHand) < 0

\* the seat to act has an accepted action other than FOLD
CanDoMoreThanFold ==
  \E action \in ACTION_VALUES \ {FOLD} :
    \E r \in RandomStreams :
      processAction(gameState, gameState.activePlayer, action, r).success

\* C35: in every betting-phase state the seat to act has at least one
\* accepted action other than FOLD; a seat at 0 remaining bullets is never the
\* seat to act while the opponent's commitment exceeds its own.
C35_NeverForcedToFold ==
  (InBetting /\ gameState.activePlayer \in SEATS) =>
    /\ CanDoMoreThanFold
    /\ ~(/\ bulletsOf(gameState, gameState.activePlayer) = 0
         /\ committedOf(gameState, opponentOf(gameState.activePlayer))
              > committedOf(gameState, gameState.activePlayer))

\* the step is a betting action accepted in a betting phase: the state has
\* changed with the same connections in the seats and in the viewers list
\* (no join, no disconnect) and no exchange made; start, reset and shot are
\* rejected in a betting phase
AcceptedBet ==
  /\ InBetting
  /\ gameState' # gameState
  /\ gameState'.viewers = gameState.viewers
  /\ \A seat \in SEATS :
       /\ gameState'.players[seat] # nullObject
       /\ gameState'.players[seat].socketId = gameState.players[seat].socketId
       /\ gameState'.players[seat].hasSwitched => gameState.players[seat].hasSwitched

\* the streets in their order, any other phase after them
street(phase) ==
  CASE phase = PREFLOP -> 1 [] phase = FLOP -> 2 [] phase = TURN -> 3
    [] phase = RIVER -> 4 [] OTHER -> 5

\* a bound on the accepted betting actions left in the match: every bullet
\* still held can pay for one action on each street
actionsLeft(gs) ==
  (gs.player1Bullets + gs.player2Bullets + 1) * street(WAITING) - street(gs.phase)

\* an accepted betting action raises the pot, advances the phase or ends the
\* hand, and unless it ends in SHOOTING or GAME_OVER it lowers the bound
BetMakesProgress ==
  AcceptedBet =>
    /\ \/ gameState'.pot > gameState.pot
       \/ street(gameState'.phase) > street(gameState.phase)
       \/ gameState'.phase \in {SHOOTING, GAME_OVER}
       \/ dealsHand(gameState, gameState')
    /\ \/ gameState'.phase \in {SHOOTING, GAME_OVER}
       \/ /\ gameState'.phase \in BETTING_PHASES
          /\ actionsLeft(gameState') < actionsLeft(gameState)
          /\ actionsLeft(gameState') >= 0

C37_NeverStuckWaiting ==
  (/\ gameState.phase = WAITING
   /\ gameState.players.player1 # nullObject
   /\ gameState.players.player2 # nullObject) =>
    /\ gameState.player1Bullets > 0
    /\ gameState.player2Bullets > 0
    /\ \A socket \in SocketIds, r \in RandomStreams :
         \A h \in {onStartGame(gameState, socket, r)} :
           h.ok /\ h.gameState.phase = PREFLOP

\* the street after which advancePhase goes to the showdown
ShowdownDue ==
  /\ InBetting
  /\ \/ gameState.phase = RIVER
     \/ gameState.player1Bullets = 0 /\ gameState.player2Bullets = 0

\* C38: ANTE and SHOWDOWN are transient: after any operation completes the
\* phase is never ANTE or SHOWDOWN, and a showdown that is due is resolved
\* by the same call into SHOOTING, the PREFLOP of a new hand, or GAME_OVER.
C38_TransientPhases ==
  /\ gameState.phase \notin {ANTE, SHOWDOWN}
  /\ ShowdownDue =>
       \A r \in RandomStreams :
         \A resolved \in {advancePhase(gameState, r)} :
           /\ resolved.phase \in {SHOOTING, PREFLOP, GAME_OVER}
           /\ resolved.phase = PREFLOP =>
                resolved.communityCards = <<>> /\ resolved.handResult = nullObject

\* a showdown has just been resolved into SHOOTING
C38_Witness ==
  /\ gameState.phase = SHOOTING
  /\ gameState.handResult # nullObject
  /\ Len(gameState.communityCards) = 5
  /\ gameState.lastAction # nullObject
  /\ gameState.lastAction.action \in {"CHECK", "CALL"}

\* the hole cards of a seat in a state
holeCards(gs, seat) == IF seat = "player1" THEN gs.player1Hand ELSE gs.player2Hand

\* the step replaces one hole card of the seat and uses up its exchange
exchangesCard(seat) ==
  /\ gameState.players[seat] # nullObject
  /\ gameState'.players[seat] # nullObject
  /\ ~gameState.players[seat].hasSwitched
  /\ gameState'.players[seat].hasSwitched
  /\ Len(holeCards(gameState', seat)) = Len(holeCards(gameState, seat))

HoleCardsChangeOnlyByDealOrExchange ==
  \A seat \in SEATS :
    holeCards(gameState', seat) # holeCards(gameState, seat) =>
      \/ dealsHand(gameState, gameState')
      \/ holeCards(gameState', seat) = <<>>
      \/ /\ gameState.phase \in BETTING_PHASES
         /\ exchangesCard(seat)

\* C39: a seat's hole cards change only when a hand is dealt (or the match
\* is reset) or through an exchange made in a betting phase; in SHOOTING
\* and GAME_OVER no exchange is accepted and the hole cards stay as they are
\* until the next hand.
C39_HoleCardsFixedAfterShowdown == [][HoleCardsChangeOnlyByDealOrExchange]_vars

\* the cards of a sequence, as a set
cardSet(cards) == {cards[i] : i \in DOMAIN cards}

\* the hole cards the seat gave up in the step
discarded(seat) ==
  cardSet(holeCards(gameState, seat)) \ cardSet(holeCards(gameState', seat))

DiscardIsOutOfTheHand ==
  \A seat \in SEATS :
    (/\ gameState.phase \in {PREFLOP, FLOP, TURN}
     /\ gameState'.phase = gameState.phase
     /\ exchangesCard(seat)) =>
      \A oldCard \in discarded(seat) :
        /\ oldCard \notin cardSet(gameState'.deck)
        /\ \A r \in RandomStreams :
             oldCard \notin cardSet(advancePhase(gameState', r).communityCards)

\* C40: a hole card discarded through an exchange is never dealt again in
\* the same hand: it is not in the deck after the exchange and is not among
\* the community cards of the next street.
C40_DiscardNotDealtAgain == [][DiscardIsOutOfTheHand]_vars

====
